---- MODULE Spec2Model ----
(***************************************************************************)
(* Content-moderation plugin (index.js): the configuration store           *)
(* (loadConfig / saveConfig over config.yaml, parseYAML / stringifyYAML),  *)
(* the matcher (checkKeywords), the whitelist evaluator (isWhitelisted),   *)
(* the message:received / message:sending hooks and the CLI command.       *)
(*                                                                         *)
(* JavaScript strings are sequences of one-character strings, so that      *)
(* trim, split, includes, toLowerCase and the iteration of a string by     *)
(* for..of are computed and not assumed.  JavaScript values are records    *)
(* tagged by their type: [t |-> "string", v |-> <<"a","b">>].              *)
(***************************************************************************)
EXTENDS Integers, Sequences, FiniteSets, TLC

(* ------------------------------------------------------------------ *)
(* Bounds of the model                                                 *)
(* ------------------------------------------------------------------ *)
\* The hooks block no further event once they have blocked this many, or
\* once the persisted totalChecks has reached this value.
MaxChecks == 2

(* ------------------------------------------------------------------ *)
(* JavaScript values                                                   *)
(* ------------------------------------------------------------------ *)
Undef == [t |-> "undefined", v |-> <<>>]
Null == [t |-> "null", v |-> <<>>]
NaN == [t |-> "NaN", v |-> <<>>]
Bool(b) == [t |-> "boolean", v |-> b]
Num(n) == [t |-> "number", v |-> n]
Str(s) == [t |-> "string", v |-> s]
Arr(a) == [t |-> "array", v |-> a]
Obj(entries) == [t |-> "object", v |-> entries]

\* ToBoolean: undefined, null, NaN, false, 0 and "" are falsy.
Truthy(x) ==
  CASE x.t = "undefined" -> FALSE
    [] x.t = "null" -> FALSE
    [] x.t = "NaN" -> FALSE
    [] x.t = "boolean" -> x.v
    [] x.t = "number" -> x.v # 0
    [] x.t = "string" -> x.v # <<>>
    [] OTHER -> TRUE

\* Strict equality of two values of the model (never compares the
\* payloads of values of different types).
RECURSIVE JsEq(_, _)
JsEq(a, b) ==
  IF a.t # b.t THEN FALSE
  ELSE IF a.t \in {"undefined", "null", "NaN"} THEN a.t # "NaN"
  ELSE IF a.t = "array" THEN
    /\ Len(a.v) = Len(b.v)
    /\ \A i \in 1..Len(a.v) : JsEq(a.v[i], b.v[i])
  ELSE IF a.t = "object" THEN
    /\ Len(a.v) = Len(b.v)
    /\ \A i \in 1..Len(a.v) : a.v[i].k = b.v[i].k /\ JsEq(a.v[i].v, b.v[i].v)
  ELSE a.v = b.v

\* o[k]: the value of property k, undefined when o has no such property.
RECURSIVE PropFrom(_, _, _)
PropFrom(es, k, i) ==
  IF i > Len(es) THEN Undef
  ELSE IF es[i].k = k THEN es[i].v
  ELSE PropFrom(es, k, i + 1)

Get(o, k) == IF o.t = "object" THEN PropFrom(o.v, k, 1) ELSE Undef

HasKey(o, k) == o.t = "object" /\ \E i \in 1..Len(o.v) : o.v[i].k = k

\* o[k] = val: an existing property keeps its place in Object.entries,
\* a new one goes last.
Put(o, k, val) ==
  IF HasKey(o, k)
  THEN Obj([i \in 1..Len(o.v) |->
              IF o.v[i].k = k THEN [k |-> k, v |-> val] ELSE o.v[i]])
  ELSE Obj(Append(o.v, [k |-> k, v |-> val]))

(* ------------------------------------------------------------------ *)
(* String methods                                                      *)
(* ------------------------------------------------------------------ *)
IsSpace(ch) == ch \in {" ", "\n", "\t", "\r"}

RECURSIVE TrimStart(_)
TrimStart(s) ==
  IF s # <<>> /\ IsSpace(Head(s)) THEN TrimStart(Tail(s)) ELSE s

RECURSIVE TrimEnd(_)
TrimEnd(s) ==
  IF s # <<>> /\ IsSpace(s[Len(s)])
  THEN TrimEnd(SubSeq(s, 1, Len(s) - 1)) ELSE s

\* String.prototype.trim
Trim(s) == TrimEnd(TrimStart(s))

\* l.search(/\S/): 0-based index of the first non-blank character, -1 if none.
SearchNonSpace(l) ==
  IF \A i \in 1..Len(l) : IsSpace(l[i]) THEN -1
  ELSE (CHOOSE i \in 1..Len(l) :
          /\ ~IsSpace(l[i])
          /\ \A j \in 1..(i - 1) : IsSpace(l[j])) - 1

\* s.split(ch) for a one-character separator: the pieces between the
\* occurrences of ch, in order.
Split(s, ch) ==
  LET seps == {i \in 1..Len(s) : s[i] = ch}
      \* position of the n-th separator; 0 before the first piece and
      \* Len(s) + 1 after the last one
      sep(n) == IF n = 0 THEN 0
                ELSE IF n > Cardinality(seps) THEN Len(s) + 1
                ELSE CHOOSE i \in seps : Cardinality({j \in seps : j < i}) = n - 1
  IN [n \in 1..(Cardinality(seps) + 1) |->
        SubSeq(s, sep(n - 1) + 1, sep(n) - 1)]

\* parts.join(ch)
RECURSIVE Join(_, _)
Join(parts, ch) ==
  IF parts = <<>> THEN <<>>
  ELSE IF Len(parts) = 1 THEN parts[1]
  ELSE parts[1] \o <<ch>> \o Join(Tail(parts), ch)

StartsWith(s, ch) == s # <<>> /\ s[1] = ch
EndsWith(s, ch) == s # <<>> /\ s[Len(s)] = ch

\* s.slice(1, -1)
SliceInner(s) == IF Len(s) <= 2 THEN <<>> ELSE SubSeq(s, 2, Len(s) - 1)

UpperCase ==
  <<"A", "B", "C", "D", "E", "F", "G", "H", "I", "J", "K", "L", "M",
    "N", "O", "P", "Q", "R", "S", "T", "U", "V", "W", "X", "Y", "Z">>

LowerCase ==
  <<"a", "b", "c", "d", "e", "f", "g", "h", "i", "j", "k", "l", "m",
    "n", "o", "p", "q", "r", "s", "t", "u", "v", "w", "x", "y", "z">>

LowerChar(ch) ==
  IF \E i \in 1..26 : UpperCase[i] = ch
  THEN LowerCase[CHOOSE i \in 1..26 : UpperCase[i] = ch]
  ELSE ch

\* String.prototype.toLowerCase (ASCII letters).
ToLowerCase(s) == [i \in 1..Len(s) |-> LowerChar(s[i])]

\* String.prototype.includes
Includes(s, sub) ==
  \E i \in 0..(Len(s) - Len(sub)) :
    \A j \in 1..Len(sub) : s[i + j] = sub[j]

\* "  ".repeat(n)
RECURSIVE Spaces(_)
Spaces(n) == IF n = 0 THEN <<>> ELSE <<" ", " ">> \o Spaces(n - 1)

Digits == <<"0", "1", "2", "3", "4", "5", "6", "7", "8", "9">>

IsDigit(ch) == \E d \in 1..10 : Digits[d] = ch

DigitValue(ch) == (CHOOSE d \in 1..10 : Digits[d] = ch) - 1

\* String(n) for an integer n >= 0.
RECURSIVE NumToString(_)
NumToString(n) ==
  IF n < 10 THEN <<Digits[n + 1]>>
  ELSE NumToString(n \div 10) \o <<Digits[(n % 10) + 1]>>

RECURSIVE DecimalFrom(_, _, _)
DecimalFrom(s, i, acc) ==
  IF i > Len(s) THEN acc
  ELSE DecimalFrom(s, i + 1, acc * 10 + DigitValue(s[i]))

\* Number(v) for a trimmed, non-empty v: a run of decimal digits is its
\* value; every other text over the model's alphabet (letters, quotes,
\* ':', '*', ' ', and '-' only before a blank) is NaN.
ToNumber(v) ==
  IF v # <<>> /\ \A i \in 1..Len(v) : IsDigit(v[i])
  THEN Num(DecimalFrom(v, 1, 0))
  ELSE NaN

(* ------------------------------------------------------------------ *)
(* String literals of index.js                                         *)
(* ------------------------------------------------------------------ *)
S_enabled == <<"e", "n", "a", "b", "l", "e", "d">>
S_mode == <<"m", "o", "d", "e">>
S_keywords == <<"k", "e", "y", "w", "o", "r", "d", "s">>
S_whitelist == <<"w", "h", "i", "t", "e", "l", "i", "s", "t">>
S_stats == <<"s", "t", "a", "t", "s">>
S_totalChecks == <<"t", "o", "t", "a", "l", "C", "h", "e", "c", "k", "s">>
S_blocked == <<"b", "l", "o", "c", "k", "e", "d">>
S_both == <<"b", "o", "t", "h">>
S_input_only == <<"i", "n", "p", "u", "t", "_", "o", "n", "l", "y">>
S_output_only == <<"o", "u", "t", "p", "u", "t", "_", "o", "n", "l", "y">>
S_true == <<"t", "r", "u", "e">>
S_false == <<"f", "a", "l", "s", "e">>
S_undefined == <<"u", "n", "d", "e", "f", "i", "n", "e", "d">>
S_null == <<"n", "u", "l", "l">>
S_NaN == <<"N", "a", "N">>
S_objectObject == <<"[", "o", "b", "j", "e", "c", "t", " ", "O", "b", "j", "e", "c", "t", "]">>
S_KeywordPrefix == <<"K", "e", "y", "w", "o", "r", "d", ":", " ">>

(* ------------------------------------------------------------------ *)
(* parseYAML / stringifyYAML                                           *)
(* ------------------------------------------------------------------ *)
\* `${x}`: the string a value is converted to inside a template literal.
RECURSIVE TemplateString(_)
RECURSIVE JoinValues(_, _)
JoinValues(a, i) ==
  IF i > Len(a) THEN <<>>
  ELSE (IF a[i].t \in {"undefined", "null"} THEN <<>> ELSE TemplateString(a[i]))
       \o (IF i < Len(a) THEN <<",">> ELSE <<>>)
       \o JoinValues(a, i + 1)

TemplateString(x) ==
  CASE x.t = "string" -> x.v
    [] x.t = "number" -> NumToString(x.v)
    [] x.t = "boolean" -> (IF x.v THEN S_true ELSE S_false)
    [] x.t = "undefined" -> S_undefined
    [] x.t = "null" -> S_null
    [] x.t = "NaN" -> S_NaN
    [] x.t = "array" -> JoinValues(x.v, 1)
    [] OTHER -> S_objectObject

\* The scalar of a `key: value` line (index.js lines 126-130).
parseValue(v) ==
  IF \/ (StartsWith(v, "\"") /\ EndsWith(v, "\""))
     \/ (StartsWith(v, "'") /\ EndsWith(v, "'"))
  THEN Str(SliceInner(v))
  ELSE IF v = S_true THEN Bool(TRUE)
  ELSE IF v = S_false THEN Bool(FALSE)
  ELSE IF ToNumber(v).t = "number" THEN ToNumber(v)
  ELSE Str(v)

\* p[k] = val where p is the object reached from the root r by path.
RECURSIVE SetAt(_, _, _, _)
SetAt(r, path, k, val) ==
  IF path = <<>> THEN Put(r, k, val)
  ELSE Put(r, Head(path), SetAt(Get(r, Head(path)), Tail(path), k, val))

\* while (st.length && i <= st[st.length - 1].ind) st.pop();
RECURSIVE PopStack(_, _)
PopStack(st, i) ==
  IF st # <<>> /\ i <= st[Len(st)].ind
  THEN PopStack(SubSeq(st, 1, Len(st) - 1), i)
  ELSE st

\* One iteration of the loop of parseYAML.  ps.r is the result object and
\* ps.st the stack; a stack entry names its object by its path from ps.r.
parseLine(ps, l) ==
  LET t == Trim(l)
      i == SearchNonSpace(l)
      st == PopStack(ps.st, i)
      path == IF st # <<>> THEN st[Len(st)].path ELSE <<>>
      parts == Split(t, ":")
      k == Trim(parts[1])
      v == Trim(Join(Tail(parts), ":"))
  IN IF t = <<>> \/ StartsWith(t, "#") THEN ps
     ELSE IF v = <<>>
     THEN [r |-> SetAt(ps.r, path, k, Obj(<<>>)),
           st |-> Append(st, [ind |-> i, path |-> Append(path, k)])]
     ELSE [r |-> SetAt(ps.r, path, k, parseValue(v)), st |-> st]

RECURSIVE parseLines(_, _, _)
parseLines(ps, ls, n) ==
  IF n > Len(ls) THEN ps ELSE parseLines(parseLine(ps, ls[n]), ls, n + 1)

parseYAML(content) ==
  parseLines([r |-> Obj(<<>>), st |-> <<>>], Split(content, "\n"), 1).r

RECURSIVE stringifyEntries(_, _, _)
\* v.forEach(i => y += `${s}  - ${i}\n`)
RECURSIVE stringifyItems(_, _, _)
stringifyItems(a, n, s) ==
  IF n > Len(a) THEN <<>>
  ELSE s \o <<" ", " ", "-", " ">> \o TemplateString(a[n]) \o <<"\n">>
       \o stringifyItems(a, n + 1, s)

stringifyEntries(es, n, ind) ==
  IF n > Len(es) THEN <<>>
  ELSE
    LET s == Spaces(ind)
        k == es[n].k
        v == es[n].v
        y == IF v.t = "object"
             THEN s \o k \o <<":", "\n">> \o stringifyEntries(v.v, 1, ind + 1)
             ELSE IF v.t = "array"
             THEN s \o k \o <<":", "\n">> \o stringifyItems(v.v, 1, s)
             ELSE s \o k \o <<":", " ">>
                  \o (IF v.t = "string" THEN <<"\"">> \o v.v \o <<"\"">>
                      ELSE TemplateString(v))
                  \o <<"\n">>
    IN y \o stringifyEntries(es, n + 1, ind)

stringifyYAML(obj, ind) == stringifyEntries(obj.v, 1, ind)

(* ------------------------------------------------------------------ *)
(* Config store                                                        *)
(* ------------------------------------------------------------------ *)
\* The object literal loadConfig returns when there is nothing to read.
DefaultConfig ==
  Obj(<< [k |-> S_enabled, v |-> Bool(TRUE)],
         [k |-> S_mode, v |-> Str(S_both)],
         [k |-> S_keywords, v |-> Arr(<<>>)],
         [k |-> S_whitelist, v |-> Arr(<<>>)],
         [k |-> S_stats, v |-> Obj(<< [k |-> S_totalChecks, v |-> Num(0)],
                                      [k |-> S_blocked, v |-> Num(0)] >>)] >>)

\* loadConfig on the file f; readOk = FALSE is readFileSync throwing.
loadConfig(f, readOk) ==
  IF f.exists /\ readOk THEN parseYAML(f.content) ELSE DefaultConfig

\* saveConfig: the file after the call and the boolean returned;
\* writeOk = FALSE is writeFileSync throwing before it wrote.
saveConfig(f, config, writeOk) ==
  IF writeOk
  THEN [file |-> [exists |-> TRUE, content |-> stringifyYAML(config, 0)],
        ret |-> TRUE]
  ELSE [file |-> f, ret |-> FALSE]

(* ------------------------------------------------------------------ *)
(* Matcher and whitelist evaluator                                     *)
(* ------------------------------------------------------------------ *)
\* a || b
Or(a, b) == IF Truthy(a) THEN a ELSE b

\* for (const x of v): an array yields its elements, a string its
\* characters; any other value is not iterable (TypeError).
Iterable(x) == x.t \in {"array", "string"}

Items(x) ==
  IF x.t = "array" THEN x.v
  ELSE [i \in 1..Len(x.v) |-> Str(<<x.v[i]>>)]

\* The loop of checkKeywords from the n-th item on.
RECURSIVE matchFrom(_, _, _)
matchFrom(text, ks, n) ==
  IF n > Len(ks) THEN [threw |-> FALSE, val |-> Null]
  ELSE IF ks[n].t # "string" THEN [threw |-> TRUE, val |-> Undef]
  ELSE IF Includes(ToLowerCase(text), ToLowerCase(ks[n].v))
  THEN [threw |-> FALSE, val |-> ks[n]]
  ELSE matchFrom(text, ks, n + 1)

\* checkKeywords(text, config); text is the characters of a string.
checkKeywords(text, config) ==
  IF ~Truthy(Get(config, S_enabled)) \/ ~Truthy(Get(config, S_keywords))
  THEN [threw |-> FALSE, val |-> Null]
  ELSE IF ~Iterable(Get(config, S_keywords))
  THEN [threw |-> TRUE, val |-> Undef]
  ELSE matchFrom(text, Items(Get(config, S_keywords)), 1)

\* The characters of the class [.+?^${}()|[\]\\].
RegexMeta == {".", "+", "?", "^", "$", "{", "}", "(", ")", "|", "[", "]", "\\"}

\* p.replace(/[.+?^${}()|[\]\\]/g, '\\$&')
RECURSIVE escapeMeta(_)
escapeMeta(p) ==
  IF p = <<>> THEN <<>>
  ELSE (IF Head(p) \in RegexMeta THEN <<"\\", Head(p)>> ELSE <<Head(p)>>)
       \o escapeMeta(Tail(p))

\* .replace(/\*/g, '.*')
RECURSIVE starToAny(_)
starToAny(p) ==
  IF p = <<>> THEN <<>>
  ELSE (IF Head(p) = "*" THEN <<".", "*">> ELSE <<Head(p)>>)
       \o starToAny(Tail(p))

\* The source of the regular expression built from the pattern p.
regexSource(p) == starToAny(escapeMeta(p))

\* new RegExp(`^${re}$`).test(s): whether re from its i-th character on
\* matches s from its j-th character to its end.  An atom of re is an
\* escaped character (itself), '.' (any character but a line terminator)
\* or any other character (itself); an atom may be followed by '*'.
RECURSIVE regexTest(_, _, _, _)
regexTest(re, i, s, j) ==
  IF i > Len(re) THEN j > Len(s)
  ELSE
    LET esc == re[i] = "\\" /\ i < Len(re)
        w == IF esc THEN 2 ELSE 1
        atom(ch) == IF esc THEN ch = re[i + 1]
                    ELSE IF re[i] = "." THEN ch \notin {"\n", "\r"}
                    ELSE ch = re[i]
        starred == i + w <= Len(re) /\ re[i + w] = "*"
    IN IF starred
       THEN \/ regexTest(re, i + w + 1, s, j)
            \/ /\ j <= Len(s)
               /\ atom(s[j])
               /\ regexTest(re, i, s, j + 1)
       ELSE /\ j <= Len(s)
            /\ atom(s[j])
            /\ regexTest(re, i + w, s, j + 1)

\* The loop of isWhitelisted from the n-th item on.
RECURSIVE whitelistFrom(_, _, _)
whitelistFrom(sessionKey, ps, n) ==
  IF n > Len(ps) THEN [threw |-> FALSE, val |-> FALSE]
  ELSE IF ps[n].t # "string" THEN [threw |-> TRUE, val |-> FALSE]
  ELSE IF regexTest(regexSource(ps[n].v), 1, sessionKey, 1)
  THEN [threw |-> FALSE, val |-> TRUE]
  ELSE whitelistFrom(sessionKey, ps, n + 1)

\* isWhitelisted(sessionKey, config)
isWhitelisted(sessionKey, config) ==
  LET w == Or(Get(config, S_whitelist), Arr(<<>>))
  IN IF ~Iterable(w) THEN [threw |-> TRUE, val |-> FALSE]
     ELSE whitelistFrom(sessionKey, Items(w), 1)

(* ------------------------------------------------------------------ *)
(* Hook handlers                                                       *)
(* ------------------------------------------------------------------ *)
\* x++ on a property: the value stored back.
Increment(x) ==
  CASE x.t = "number" -> Num(x.v + 1)
    [] x.t = "boolean" -> Num(IF x.v THEN 2 ELSE 1)
    [] x.t = "null" -> Num(1)
    [] x.t = "string" ->
         (IF Trim(x.v) = <<>> THEN Num(1)
          ELSE IF ToNumber(Trim(x.v)).t = "number"
          THEN Num(ToNumber(Trim(x.v)).v + 1)
          ELSE NaN)
    [] OTHER -> NaN

\* countBlock without `c.stats.blocked++`.
countBlockNoBlocked(c) ==
  LET s == Or(Get(c, S_stats), Obj(<< [k |-> S_totalChecks, v |-> Num(0)],
                                       [k |-> S_blocked, v |-> Num(0)] >>))
  IN Put(c, S_stats,
         IF s.t = "object"
         THEN Put(s, S_totalChecks, Increment(Get(s, S_totalChecks)))
         ELSE s)

\* countBlock without `c.stats.totalChecks++`.
countBlockNoTotal(c) ==
  LET s == Or(Get(c, S_stats), Obj(<< [k |-> S_totalChecks, v |-> Num(0)],
                                       [k |-> S_blocked, v |-> Num(0)] >>))
  IN Put(c, S_stats,
         IF s.t = "object"
         THEN Put(s, S_blocked, Increment(Get(s, S_blocked)))
         ELSE s)

\* c.stats = c.stats || { totalChecks: 0, blocked: 0 };
\* c.stats.totalChecks++; c.stats.blocked++;
\* (a property write on a primitive is dropped: the file is not strict).
countBlock(c) ==
  LET s == Or(Get(c, S_stats),
              Obj(<< [k |-> S_totalChecks, v |-> Num(0)],
                     [k |-> S_blocked, v |-> Num(0)] >>))
      s1 == IF s.t = "object"
            THEN Put(s, S_totalChecks, Increment(Get(s, S_totalChecks)))
            ELSE s
      s2 == IF s1.t = "object"
            THEN Put(s1, S_blocked, Increment(Get(s1, S_blocked)))
            ELSE s1
  IN Put(c, S_stats, s2)

\* excludedMode with the two handlers' modes exchanged.
excludedModeSwapped(dir) ==
  IF dir = "received" THEN S_input_only ELSE S_output_only

\* The mode a handler returns on: 'output_only' for message:received,
\* 'input_only' for message:sending.
excludedMode(dir) == IF dir = "received" THEN S_output_only ELSE S_input_only

\* gateReturns without the `!c.enabled` test.
gateIgnoresEnabled(c, dir) ==
  JsEq(Get(c, S_mode),
       Str(IF dir = "received" THEN S_output_only ELSE S_input_only))

\* if (!c.enabled || c.mode === <excluded>) return;
gateReturns(c, dir) ==
  \/ ~Truthy(Get(c, S_enabled))
  \/ JsEq(Get(c, S_mode), Str(excludedMode(dir)))

\* e.text || e.content || '' for message:received,
\* e.content || e.text || '' for message:sending.
eventText(e, dir) ==
  IF dir = "received"
  THEN Or(Or(e.text, e.content), Str(<<>>))
  ELSE Or(Or(e.content, e.text), Str(<<>>))

\* whitelistGate that exempts nobody.
whitelistGateOff(e, c) == [threw |-> FALSE, val |-> FALSE]

\* isWhitelisted(e.sessionKey || '', c)
whitelistGate(e, c) == isWhitelisted(Or(e.sessionKey, Str(<<>>)).v, c)

\* `Keyword: ${m}`
cancelReason(m) == Str(S_KeywordPrefix \o TemplateString(m))

\* The body of a hook handler after `const c = loadConfig()`, on the
\* event e with the file f: the file and the event after it, and where the
\* handler ended:
\*   "gate"        returned at the enabled / mode test,
\*   "whitelisted" returned at the whitelist test,
\*   "nomatch"     ran to the end without a match,
\*   "blocked"     cancelled the event,
\*   "threw"       the async handler rejected with a TypeError.
hook(dir, e, f, c, writeOk) ==
  LET w == whitelistGate(e, c)
      m == checkKeywords(eventText(e, dir).v, c)
      c2 == countBlock(c)
      sv == saveConfig(f, c2, writeOk)
      same(o) == [file |-> f, e |-> e, outcome |-> o, wrote |-> FALSE,
                  saved |-> FALSE, arg |-> Undef]
  IN IF gateReturns(c, dir) THEN same("gate")
     ELSE IF w.threw THEN same("threw")
     ELSE IF w.val THEN same("whitelisted")
     ELSE IF m.threw THEN same("threw")
     ELSE IF ~Truthy(m.val) THEN same("nomatch")
     ELSE [file |-> sv.file,
           e |-> [e EXCEPT !.cancel = Bool(TRUE),
                           !.cancelReason = cancelReason(m.val)],
           outcome |-> "blocked", wrote |-> TRUE, saved |-> sv.ret,
           arg |-> c2]

(* ------------------------------------------------------------------ *)
(* CLI command                                                         *)
(* ------------------------------------------------------------------ *)
\* savingCommands with `test` among them.
savingCommandsWithTest == {"enable", "disable", "test"}

\* The cases of the switch that call saveConfig.
savingCommands == {"enable", "disable"}

\* setEnabled that starts from the default configuration.
setEnabledOnDefaults(c, b) == Put(DefaultConfig, S_enabled, Bool(b))

\* c.enabled = true / c.enabled = false
setEnabled(c, b) == Put(c, S_enabled, Bool(b))

\* The body of the handler registered by registerCli after
\* `const c = loadConfig()`, run with a._[0] = cmd and a.text = text: the
\* file after it, what it printed (or "threw"), and the configuration it
\* passed to saveConfig.
cli(cmd, text, f, c, writeOk) ==
  LET m == checkKeywords(Or(text, Str(<<>>)).v, c)
      c2 == setEnabled(c, cmd = "enable")
      sv == saveConfig(f, c2, writeOk)
      same(o) == [file |-> f, outcome |-> o, wrote |-> FALSE,
                  saved |-> FALSE, arg |-> Undef]
  IN CASE cmd \in savingCommands ->
            [file |-> sv.file, outcome |-> "none", wrote |-> TRUE,
             saved |-> sv.ret, arg |-> c2]
       [] cmd = "status" -> same("status")
       [] cmd = "test" ->
            (IF m.threw THEN same("threw")
             ELSE IF Truthy(m.val) THEN same("Blocked")
             ELSE same("Passed"))
       [] OTHER -> same("usage")

(* ------------------------------------------------------------------ *)
(* Admin HTTP server (createServer)                                    *)
(* ------------------------------------------------------------------ *)
S_api == <<"/", "a", "p", "i", "/">>
S_data == <<"d", "a", "t", "a">>
S_test == <<"t", "e", "s", "t">>
S_text == <<"t", "e", "x", "t">>
S_passed == <<"p", "a", "s", "s", "e", "d">>
S_matched == <<"m", "a", "t", "c", "h", "e", "d">>
S_error == <<"e", "r", "r", "o", "r">>
S_NotFound == <<"N", "o", "t", " ", "F", "o", "u", "n", "d">>
S_InternalError == <<"I", "n", "t", "e", "r", "n", "a", "l", " ", "E", "r", "r", "o", "r">>

\* s.startsWith(p)
HasPrefix(s, p) == Len(s) >= Len(p) /\ SubSeq(s, 1, Len(p)) = p

\* s.replace(p, ''): s without the first occurrence of p.
RemoveFirst(s, p) ==
  LET occ == {i \in 0..(Len(s) - Len(p)) : SubSeq(s, i + 1, i + Len(p)) = p}
      i == CHOOSE x \in occ : \A y \in occ : x <= y
  IN IF occ = {} THEN s
     ELSE SubSeq(s, 1, i) \o SubSeq(s, i + Len(p) + 1, Len(s))

\* The request bodies a client sends to POST /api/test.
Body_match == <<"{", "\"", "t", "e", "x", "t", "\"", ":", "\"", "x", "S", "P", "y", "\"", "}">>
Body_empty == <<"{", "}">>
Body_null == <<"n", "u", "l", "l">>
Body_cut == <<"{", "\"", "t", "e", "x", "t", "\"", ":">>

BodyChoices == <<Body_match, Body_empty, Body_null, Body_cut>>

\* JSON.parse(body) on the bodies above: the value, or a SyntaxError.
JSONparse(body) ==
  CASE body = Body_match ->
         [threw |-> FALSE,
          val |-> Obj(<<[k |-> S_text, v |-> Str(<<"x", "S", "P", "y">>)]>>)]
    [] body = Body_empty -> [threw |-> FALSE, val |-> Obj(<<>>)]
    [] body = Body_null -> [threw |-> FALSE, val |-> Null]
    [] OTHER -> [threw |-> TRUE, val |-> Undef]

\* The 'end' callback of POST /api/test (lines 71-76) on the whole body,
\* with the config the request handler loaded: the response it writes, or
\* threw = TRUE when it throws (JSON.parse, data.text on null, or
\* checkKeywords); it runs from the event loop, outside the try block.
onEnd(body, config) ==
  LET data == JSONparse(body)
      text == Or(Get(data.val, S_text), Str(<<>>))
      matched == checkKeywords(text.v, config)
      uncaught == [threw |-> TRUE, status |-> 0, data |-> Undef]
  IN IF data.threw THEN uncaught
     ELSE IF data.val.t \in {"null", "undefined"} THEN uncaught
     ELSE IF matched.threw THEN uncaught
     ELSE [threw |-> FALSE, status |-> 200,
           data |-> Obj(<< [k |-> S_passed, v |-> Bool(~Truthy(matched.val))],
                           [k |-> S_matched, v |-> Or(matched.val, Null)] >>)]

\* apiRoute that takes every method for `test`.
apiRouteAnyMethod(url, method) ==
  IF url = S_data THEN "data"
  ELSE IF url = S_test THEN "test"
  ELSE "notfound"

\* The branch of the /api/ handler taken for url (after '/api/' was
\* removed) and method.
apiRoute(url, method) ==
  IF url = S_data THEN "data"
  ELSE IF url = S_test /\ method = "POST" THEN "test"
  ELSE "notfound"

NoRequest == [method |-> "", url |-> <<>>, body |-> Undef]

NoResponse == [status |-> 0, data |-> Undef]

NoPending == [waiting |-> FALSE, threw |-> FALSE, status |-> 0, data |-> Undef]

\* The request listener of createServer on the request req; kind is what
\* the path under admin/public names on disk ("file", "directory",
\* "missing").  It gives the response written before it returned (status 0:
\* none yet), the config it loaded and what the 'end' callback it
\* registered will do: the callback reads the body, which the client has
\* chosen already, and the listener's own config object, nothing else.
requestListener(req, f, readOk, kind) ==
  LET config == loadConfig(f, readOk)
      r == apiRoute(RemoveFirst(req.url, S_api), req.method)
      e == onEnd(req.body.v, config)
      reply(s, d) == [status |-> s, data |-> d]
      error(msg) == Obj(<<[k |-> S_error, v |-> Str(msg)]>>)
  IN IF HasPrefix(req.url, S_api)
     THEN CASE r = "data" ->
                 [response |-> reply(200,
                     Obj(<< [k |-> S_keywords, v |-> Get(config, S_keywords)],
                            [k |-> S_whitelist, v |-> Get(config, S_whitelist)],
                            [k |-> S_stats, v |-> Get(config, S_stats)],
                            [k |-> S_enabled, v |-> Get(config, S_enabled)] >>)),
                  pending |-> NoPending, loaded |-> config]
            [] r = "test" ->
                 [response |-> NoResponse,
                  pending |-> [waiting |-> TRUE, threw |-> e.threw,
                               status |-> e.status, data |-> e.data],
                  loaded |-> config]
            [] OTHER ->
                 [response |-> reply(404, error(S_NotFound)),
                  pending |-> NoPending, loaded |-> config]
     ELSE CASE kind = "file" ->
                 [response |-> reply(200, Undef), pending |-> NoPending,
                  loaded |-> Undef]
            [] kind = "directory" ->
                 [response |-> reply(500, error(S_InternalError)),
                  pending |-> NoPending, loaded |-> Undef]
            [] OTHER ->
                 [response |-> reply(404, Str(S_NotFound)),
                  pending |-> NoPending, loaded |-> Undef]

(* ------------------------------------------------------------------ *)
(* index.ts: the keyword module                                        *)
(* ------------------------------------------------------------------ *)
S_word == <<"w", "o", "r", "d">>
S_success == <<"s", "u", "c", "c", "e", "s", "s">>
S_slashKeywords == <<"/", "k", "e", "y", "w", "o", "r", "d", "s">>
S_FailedToAdd == <<"F", "a", "i", "l", "e", "d", " ", "t", "o", " ", "a", "d", "d", " ", "k", "e", "y", "w", "o", "r", "d">>
S_FailedToRemove == <<"F", "a", "i", "l", "e", "d", " ", "t", "o", " ", "r", "e", "m", "o", "v", "e", " ", "k", "e", "y", "w", "o", "r", "d">>
S_FailedToUpdate == <<"F", "a", "i", "l", "e", "d", " ", "t", "o", " ", "u", "p", "d", "a", "t", "e", " ", "k", "e", "y", "w", "o", "r", "d", "s">>
S_ContainsPrefix == <<"C", "o", "n", "t", "a", "i", "n", "s", " ", "k", "e", "y", "w", "o", "r", "d", ":", " ">>

\* a ?? b
Nullish(a, b) == IF a.t \in {"undefined", "null"} THEN b ELSE a

\* parseYAML and stringifyYAML of index.ts are those of index.js line for
\* line (parseValue's test `value !== ''` is never reached with '').
tsParseYAML(content) == parseYAML(content)

tsStringifyYAML(obj, ind) == stringifyYAML(obj, ind)

tsDefaultConfig ==
  Obj(<< [k |-> S_enabled, v |-> Bool(TRUE)],
         [k |-> S_keywords, v |-> Arr(<<>>)] >>)

\* loadConfig of index.ts
tsLoadConfig(f, readOk) ==
  IF f.exists /\ readOk
  THEN LET config == tsParseYAML(f.content)
       IN Obj(<< [k |-> S_enabled,
                  v |-> Nullish(Get(config, S_enabled), Bool(TRUE))],
                 [k |-> S_keywords,
                  v |-> Nullish(Get(config, S_keywords), Arr(<<>>))] >>)
  ELSE tsDefaultConfig

\* saveConfig of index.ts
tsSaveConfig(f, config, writeOk) ==
  IF writeOk
  THEN [file |-> [exists |-> TRUE, content |-> tsStringifyYAML(config, 0)],
        ret |-> TRUE]
  ELSE [file |-> f, ret |-> FALSE]

\* A Set is the sequence of its members in insertion order.
SetOf(members) == [t |-> "set", v |-> members]

\* keywords.has(word)
SetHas(S, x) == \E i \in 1..Len(S.v) : JsEq(S.v[i], x)

\* keywords.add(word)
SetAdd(S, x) == IF SetHas(S, x) THEN S ELSE SetOf(Append(S.v, x))

\* keywords.delete(word)
SetDelete(S, x) == SetOf(SelectSeq(S.v, LAMBDA y : ~JsEq(y, x)))

RECURSIVE SetFrom(_, _, _)
SetFrom(S, items, n) ==
  IF n > Len(items) THEN S ELSE SetFrom(SetAdd(S, items[n]), items, n + 1)

\* new Set(x): x is iterated; null and undefined give the empty Set and a
\* value that is not iterable throws a TypeError.
NewSet(x) ==
  IF x.t \in {"undefined", "null"} THEN [threw |-> FALSE, val |-> SetOf(<<>>)]
  ELSE IF ~Iterable(x) THEN [threw |-> TRUE, val |-> SetOf(<<>>)]
  ELSE [threw |-> FALSE, val |-> SetFrom(SetOf(<<>>), Items(x), 1)]

\* The Set the module starts with (the two literals of lines 23-24,
\* written here with ASCII letters).
BuiltinKeywords == SetOf(<<Str(<<"k", "1">>), Str(<<"k", "2">>)>>)

\* getKeywords(): Array.from(keywords)
getKeywords(ks) == Arr(ks.v)

\* What a keyword function leaves: the Set, the file, the boolean it
\* returned, whether it called saveConfig and with which configuration.
kept(ks, f) ==
  [keywords |-> ks, file |-> f, ret |-> FALSE, wrote |-> FALSE, config |-> Undef]

\* The common end of the keyword functions: config.keywords = list;
\* return saveConfig(config).
saveKeywords(ks, list, f, readOk, writeOk) ==
  LET config == Put(tsLoadConfig(f, readOk), S_keywords, list)
      sv == tsSaveConfig(f, config, writeOk)
  IN [keywords |-> ks, file |-> sv.file, ret |-> sv.ret, wrote |-> TRUE,
      config |-> config]

addKeyword(word, ks, f, readOk, writeOk) ==
  IF SetHas(ks, word) THEN kept(ks, f)
  ELSE saveKeywords(SetAdd(ks, word), getKeywords(SetAdd(ks, word)), f,
                    readOk, writeOk)

removeKeyword(word, ks, f, readOk, writeOk) ==
  IF ~SetHas(ks, word) THEN kept(ks, f)
  ELSE saveKeywords(SetDelete(ks, word), getKeywords(SetDelete(ks, word)), f,
                    readOk, writeOk)

\* updateKeywords on an array of strings.
updateKeywords(newKeywords, ks, f, readOk, writeOk) ==
  saveKeywords(NewSet(newKeywords).val, newKeywords, f, readOk, writeOk)

clearKeywords(ks, f, readOk, writeOk) ==
  updateKeywords(Arr(<<>>), ks, f, readOk, writeOk)

\* The loop of checkContent from the n-th member on.
RECURSIVE contentFrom(_, _, _)
contentFrom(text, ks, n) ==
  IF n > Len(ks) THEN Null
  ELSE IF Includes(ToLowerCase(text), ToLowerCase(ks[n].v)) THEN ks[n]
  ELSE contentFrom(text, ks, n + 1)

\* checkContent(text) on the Set ks; text is a string value.
checkContent(text, ks) ==
  IF ~Truthy(text) THEN Null ELSE contentFrom(text.v, ks.v, 1)

\* The message:received hook of index.ts (lines 227-241): the event
\* after it.
tsHandler(e, ks) ==
  LET text == Or(e.text, Str(<<>>))
      matched == checkContent(text, ks)
  IN IF e.type # "message" \/ e.action # "received" THEN e
     ELSE IF ~Truthy(text) THEN e
     ELSE IF Truthy(matched)
     THEN [e EXCEPT !.cancel = Bool(TRUE),
                    !.cancelReason = Str(S_ContainsPrefix \o TemplateString(matched))]
     ELSE e

\* routeMatches that does not look at the path.
routeMatchesAnyPath(method, url, m) == method = m

\* method === m && url === ''
routeMatches(method, url, m) == method = m /\ url = <<>>

\* The handler of the /keywords route (lines 246-307) on the request req:
\* what the keyword function it called left, and its response.
routeHandler(req, ks, f, readOk, writeOk) ==
  LET url == RemoveFirst(req.url, S_slashKeywords)
      method == req.method
      word == Get(req.body, S_word)
      list == Get(req.body, S_keywords)
      reply(r, s, d) ==
        [keywords |-> r.keywords, file |-> r.file, ret |-> r.ret,
         wrote |-> r.wrote, config |-> r.config,
         response |-> [status |-> s, data |-> d]]
      success(r) == Obj(<< [k |-> S_success, v |-> Bool(TRUE)],
                           [k |-> S_keywords, v |-> getKeywords(r.keywords)] >>)
      failure(msg) == Obj(<<[k |-> S_error, v |-> Str(msg)]>>)
      \* if (given && fn(given)) return 200 ...; return 400 ...
      mutation(given, r, msg) ==
        IF ~Truthy(given) THEN reply(kept(ks, f), 400, failure(msg))
        ELSE IF r.ret THEN reply(r, 200, success(r))
        ELSE reply(r, 400, failure(msg))
  IN CASE routeMatches(method, url, "GET") ->
            reply(kept(ks, f), 200,
                  Obj(<<[k |-> S_keywords, v |-> getKeywords(ks)]>>))
       [] routeMatches(method, url, "POST") ->
            mutation(word, addKeyword(word, ks, f, readOk, writeOk), S_FailedToAdd)
       [] routeMatches(method, url, "DELETE") ->
            mutation(word, removeKeyword(word, ks, f, readOk, writeOk),
                     S_FailedToRemove)
       [] routeMatches(method, url, "PUT") ->
            mutation(list, updateKeywords(list, ks, f, readOk, writeOk),
                     S_FailedToUpdate)
       [] OTHER -> reply(kept(ks, f), 404, failure(S_NotFound))

(* ------------------------------------------------------------------ *)
(* Inputs                                                              *)
(* ------------------------------------------------------------------ *)
statsOf(n, b) ==
  Obj(<< [k |-> S_totalChecks, v |-> Num(n)], [k |-> S_blocked, v |-> Num(b)] >>)

IsPresent(entry) == entry.v.t # "undefined"

\* A configuration object with the given fields; a field given as
\* undefined is left out.
makeConfig(en, mo, kw, wl, st) ==
  Obj(SelectSeq(<< [k |-> S_enabled, v |-> en],
                   [k |-> S_mode, v |-> mo],
                   [k |-> S_keywords, v |-> kw],
                   [k |-> S_whitelist, v |-> wl],
                   [k |-> S_stats, v |-> st] >>, IsPresent))

KwScalar == Str(<<"s", "p">>)
KwList == Arr(<<Str(<<"s", "p">>)>>)
KwListEmptyFirst == Arr(<<Str(<<>>), Str(<<"s", "p">>)>>)
WlScalar == Str(<<"u">>)
WlStar == Str(<<"*">>)
WlList == Arr(<<Str(<<"u", "*">>)>>)
None == Arr(<<>>)
On == Bool(TRUE)
Both == Str(S_both)

\* The configurations config.yaml is written from before the plugin
\* starts (the file is then stringifyYAML of one of them).  keywords and
\* whitelist are lists, as documented, or one scalar, which is what
\* parseYAML reads back as a string; a field may be left out.
InitialConfigs ==
  << makeConfig(On, Both, KwScalar, WlScalar, statsOf(0, 0)),
     makeConfig(Undef, Both, KwScalar, WlScalar, statsOf(0, 0)),
     makeConfig(On, Str(S_input_only), KwScalar, WlScalar, statsOf(0, 0)),
     makeConfig(On, Str(S_output_only), KwScalar, WlScalar, statsOf(0, 0)),
     makeConfig(On, Undef, KwScalar, WlScalar, statsOf(0, 0)),
     makeConfig(On, Both, KwScalar, Undef, statsOf(0, 0)),
     makeConfig(On, Both, KwScalar, WlStar, statsOf(0, 0)),
     makeConfig(On, Both, KwScalar, WlScalar, Undef),
     makeConfig(On, Both, KwScalar, WlScalar, statsOf(1, 0)),
     makeConfig(On, Both, KwScalar, WlList, statsOf(0, 0)),
     makeConfig(On, Both, Undef, WlScalar, statsOf(0, 0)),
     makeConfig(On, Both, KwList, WlScalar, statsOf(0, 0)),
     makeConfig(On, Both, KwList, None, statsOf(0, 0)),
     makeConfig(On, Both, KwListEmptyFirst, WlList, statsOf(0, 0)),
     makeConfig(On, Both, None, None, statsOf(0, 0)),
     makeConfig(On, Str(S_input_only), KwList, None, statsOf(0, 0)),
     makeConfig(On, Str(S_output_only), KwList, None, statsOf(0, 0)),
     makeConfig(On, Undef, KwList, Undef, Undef),
     makeConfig(On, Undef, KwListEmptyFirst, Undef, Undef) >>

\* The fields of the event objects the host passes to the hooks.
TextChoices == << Undef, Str(<<"x", "S", "P", "y">>), Str(<<"y", "p">>) >>

ContentChoices == << Undef, Str(<<"s", "p">>) >>

SessionKeyChoices == << Undef, Str(<<"u">>) >>

CliCommands == {"status", "test", "enable", "disable", "help"}

(* ------------------------------------------------------------------ *)
(* State                                                               *)
(* ------------------------------------------------------------------ *)
VARIABLES
  file,      \* config.yaml: [exists, content]
  stored,    \* the configuration the content of config.yaml was written from
  op,        \* the handler that ran last
  event,     \* the event object after the last hook handler returned (a.text for the CLI)
  outcome,   \* where the last handler ended
  loaded,    \* what loadConfig returned to the last handler
  saveRet,   \* what saveConfig returned to the last handler: "none", "ok", "failed"
  ioFailed,  \* some readFileSync or writeFileSync has thrown so far
  prior,     \* the persisted counters when the plugin started
  nBlock,    \* the number of Block decisions made since
  ret,       \* what the function called on its own returned
  request,   \* the HTTP request the last handler ran on: [method, url, body]
  response,  \* the HTTP response the last handler wrote: [status, data]
  pending,   \* what the 'end' callback registered by POST /api/test will do
  keywords,  \* index.ts: the module's keyword Set, in insertion order
  registered,\* the plugin's register(api) has returned
  arg        \* the argument of the function called on its own

vars == <<file, stored, op, event, outcome, loaded, saveRet, ioFailed, prior,
          nBlock, ret, request, response, pending, keywords, registered, arg>>

\* The variables of the admin surface and of index.ts.
adminVars == <<request, response, pending, keywords, registered, arg>>

NoEvent ==
  [text |-> Undef, content |-> Undef, sessionKey |-> Undef,
   cancel |-> Undef, cancelReason |-> Undef]

\* The counters another load of the file would see; a document without
\* stats counts from zero (c.stats || { totalChecks: 0, blocked: 0 }).
statsIn(f) ==
  LET s == Get(loadConfig(f, TRUE), S_stats)
  IN IF Truthy(s) THEN s ELSE statsOf(0, 0)

Init ==
  /\ \/ /\ file = [exists |-> FALSE, content |-> <<>>]
        /\ stored = Undef
     \/ \E i \in 1..Len(InitialConfigs) :
          /\ stored = InitialConfigs[i]
          /\ file = [exists |-> TRUE, content |-> stringifyYAML(stored, 0)]
  /\ op = "init"
  /\ event = NoEvent
  /\ outcome = "none"
  /\ loaded = Undef
  /\ saveRet = "none"
  /\ ioFailed = FALSE
  /\ prior = statsIn(file)
  /\ nBlock = 0
  /\ ret = Undef
  /\ request = NoRequest
  /\ response = NoResponse
  /\ pending = NoPending
  /\ keywords = Undef
  /\ registered = TRUE
  /\ arg = Undef

\* readFileSync can throw only when there is a file to read.
ReadOutcomes == IF file.exists THEN BOOLEAN ELSE {TRUE}

\* A hook handler runs to its end on an event of the host.
Hook(dir) ==
  \E readOk \in ReadOutcomes :
    \E c \in {loadConfig(file, readOk)} :
       LET tc == Get(Get(c, S_stats), S_totalChecks)
       IN \E ti \in 1..Len(TextChoices), ci \in 1..Len(ContentChoices),
          si \in 1..Len(SessionKeyChoices) :
         LET e == [NoEvent EXCEPT !.text = TextChoices[ti],
                                  !.content = ContentChoices[ci],
                                  !.sessionKey = SessionKeyChoices[si]]
         IN \E writeOk \in BOOLEAN :
              \E h \in {hook(dir, e, file, c, writeOk)} :
                 \* writeFileSync can throw only when it is called
                 /\ writeOk \/ h.wrote
                 \* the model stops counting at MaxChecks
                 /\ h.wrote => nBlock < MaxChecks
                 /\ h.wrote /\ tc.t = "number" => tc.v < MaxChecks
                 /\ file' = h.file
                 /\ stored' = IF h.saved THEN h.arg ELSE stored
                 /\ op' = dir
                 /\ event' = h.e
                 /\ outcome' = h.outcome
                 /\ loaded' = c
                 /\ saveRet' = IF ~h.wrote THEN "none"
                               ELSE IF h.saved THEN "ok" ELSE "failed"
                 /\ ioFailed' = (ioFailed \/ ~readOk \/ (h.wrote /\ ~h.saved))
                 /\ nBlock' = IF h.outcome = "blocked" THEN nBlock + 1 ELSE nBlock
                 /\ request' = NoRequest
                 /\ response' = NoResponse
                 /\ UNCHANGED <<prior, ret, pending, keywords, registered, arg>>

Received == Hook("received")

Sending == Hook("sending")

\* The CLI handler runs to its end on a command; a.text is read by
\* `test` alone.
Cli ==
  \E readOk \in ReadOutcomes :
    \E c \in {loadConfig(file, readOk)} :
       \E cmd \in CliCommands :
         \E ti \in (IF cmd = "test" THEN 1..Len(TextChoices) ELSE {1}),
            writeOk \in (IF cmd \in savingCommands THEN BOOLEAN ELSE {TRUE}) :
           \E r \in {cli(cmd, TextChoices[ti], file, c, writeOk)} :
              /\ file' = r.file
              /\ stored' = IF r.saved THEN r.arg ELSE stored
              /\ op' = cmd
              /\ event' = [NoEvent EXCEPT !.text = TextChoices[ti]]
              /\ outcome' = r.outcome
              /\ loaded' = c
              /\ saveRet' = IF ~r.wrote THEN "none"
                            ELSE IF r.saved THEN "ok" ELSE "failed"
              /\ ioFailed' = (ioFailed \/ ~readOk \/ (r.wrote /\ ~r.saved))
              /\ request' = NoRequest
              /\ response' = NoResponse
              /\ UNCHANGED <<prior, nBlock, ret, pending, keywords, registered,
                             arg>>

Next == Received \/ Sending \/ Cli

Spec == Init /\ [][Next]_vars

(* ------------------------------------------------------------------ *)
(* The plugin with its admin server                                    *)
(* ------------------------------------------------------------------ *)
UrlChoices ==
  << S_api \o S_data,
     S_api \o S_test,
     S_api \o S_keywords,
     <<"/">>,
     <<"/", "a", "p", "p", ".", "j", "s">> >>

HttpMethods == {"GET", "POST"}

\* What a path under admin/public names on disk.
PublicKinds == {"file", "directory", "missing"}

\* The server handles a request up to the return of its listener.  At
\* most one POST /api/test is waiting for its body at a time.
HttpRequest ==
  \E ui \in 1..Len(UrlChoices), method \in HttpMethods :
    LET url == UrlChoices[ui]
        api == HasPrefix(url, S_api)
        test == api /\ apiRoute(RemoveFirst(url, S_api), method) = "test"
    IN \E bi \in (IF test THEN 1..Len(BodyChoices) ELSE {2}),
          kind \in (IF api THEN {"missing"} ELSE PublicKinds),
          readOk \in (IF api THEN ReadOutcomes ELSE {TRUE}) :
         LET req == [method |-> method, url |-> url,
                     body |-> Str(IF test THEN BodyChoices[bi] ELSE <<>>)]
         IN \E h \in {requestListener(req, file, readOk, kind)} :
              /\ h.pending.waiting => ~pending.waiting
              /\ request' = req
              /\ response' = h.response
              /\ pending' = IF h.pending.waiting THEN h.pending ELSE pending
              /\ op' = "request"
              /\ outcome' = IF h.pending.waiting THEN "deferred" ELSE "responded"
              /\ loaded' = h.loaded
              /\ saveRet' = "none"
              /\ ioFailed' = (ioFailed \/ ~readOk)
              /\ event' = NoEvent
              /\ UNCHANGED <<file, stored, prior, nBlock, ret, keywords,
                             registered, arg>>

\* The body of the waiting POST /api/test has arrived: its 'end'
\* callback runs.  An exception it throws is caught by nobody in the
\* plugin (outcome "uncaught": no response is written; what becomes of the
\* process is the host's choice).
HttpEnd ==
  /\ pending.waiting
  /\ request' = [method |-> "POST", url |-> S_api \o S_test, body |-> Undef]
  /\ response' = IF pending.threw THEN NoResponse
                 ELSE [status |-> pending.status, data |-> pending.data]
  /\ pending' = NoPending
  /\ op' = "end"
  /\ outcome' = IF pending.threw THEN "uncaught" ELSE "responded"
  /\ saveRet' = "none"
  /\ event' = NoEvent
  /\ loaded' = Undef
  /\ UNCHANGED <<file, stored, ioFailed, prior, nBlock, ret, keywords,
                 registered, arg>>

NextAdmin == Received \/ Sending \/ Cli \/ HttpRequest \/ HttpEnd

\* The plugin started on no config.yaml or on a document with scalar
\* keywords and whitelist.
InitAdmin ==
  /\ Init
  /\ \/ ~file.exists
     \/ stored = InitialConfigs[1]

SpecAdmin == InitAdmin /\ [][NextAdmin]_vars

\* A fresh installation: there is no config.yaml yet, so every document
\* the handlers read was written by saveConfig.
InitFresh == Init /\ ~file.exists

SpecFresh == InitFresh /\ [][Next]_vars

(* ------------------------------------------------------------------ *)
(* index.ts: the plugin and its exported keyword functions             *)
(* ------------------------------------------------------------------ *)
Words == << Str(<<"a">>), Str(<<"b">>) >>

KeywordLists ==
  << Arr(<<>>),
     Arr(<<Str(<<"a">>)>>),
     Arr(<<Str(<<"a">>), Str(<<"a">>)>>),
     Arr(<<Str(<<"b">>), Str(<<"a">>)>>) >>

\* The configurations config.yaml is written from before index.ts is
\* loaded: keywords as one scalar, and as a list.
TsInitialConfigs ==
  << Obj(<< [k |-> S_enabled, v |-> Bool(FALSE)],
            [k |-> S_keywords, v |-> Str(<<"a", "b">>)] >>),
     Obj(<< [k |-> S_enabled, v |-> Bool(TRUE)],
            [k |-> S_keywords, v |-> Arr(<<Str(<<"a">>)>>)] >>) >>

RouteUrls == << S_slashKeywords, S_slashKeywords \o <<"/", "a">> >>

RouteMethods == {"GET", "POST", "DELETE", "PUT", "PATCH"}

RouteBodies ==
  << Undef,
     Obj(<<[k |-> S_word, v |-> Words[1]]>>),
     Obj(<<[k |-> S_word, v |-> Words[2]]>>),
     Obj(<<[k |-> S_keywords, v |-> KeywordLists[1]]>>),
     Obj(<<[k |-> S_keywords, v |-> KeywordLists[3]]>>) >>

NoTsEvent ==
  [type |-> "", action |-> "", text |-> Undef, cancel |-> Undef,
   cancelReason |-> Undef]

TsEventTexts == << Undef, Str(<<"x", "A", "y">>), Str(<<"z">>) >>

\* The module has been loaded; register(api) has not run yet.
InitTs ==
  /\ \/ /\ file = [exists |-> FALSE, content |-> <<>>]
        /\ stored = Undef
     \/ \E i \in 1..Len(TsInitialConfigs) :
          /\ stored = TsInitialConfigs[i]
          /\ file = [exists |-> TRUE, content |-> tsStringifyYAML(stored, 0)]
  /\ op = "init"
  /\ event = NoTsEvent
  /\ outcome = "none"
  /\ loaded = Undef
  /\ saveRet = "none"
  /\ ioFailed = FALSE
  /\ prior = statsOf(0, 0)
  /\ nBlock = 0
  /\ ret = Undef
  /\ request = NoRequest
  /\ response = NoResponse
  /\ pending = NoPending
  /\ keywords = BuiltinKeywords
  /\ registered = FALSE
  /\ arg = Undef

\* What a step of index.ts leaves in the variables that describe the
\* last handler; r is what the keyword function it called left.
TsStep(name, a, r, readOk) ==
  /\ op' = name
  /\ arg' = a
  /\ keywords' = r.keywords
  /\ file' = r.file
  /\ stored' = IF r.wrote /\ r.ret THEN r.config ELSE stored
  /\ saveRet' = IF ~r.wrote THEN "none" ELSE IF r.ret THEN "ok" ELSE "failed"
  /\ ioFailed' = (ioFailed \/ (r.wrote /\ (~readOk \/ ~r.ret)))
  /\ loaded' = Undef
  /\ pending' = NoPending
  /\ UNCHANGED <<prior, nBlock, registered>>

\* A call of an exported keyword function.
TsCall(name, a, r, readOk) ==
  /\ TsStep(name, a, r, readOk)
  /\ ret' = Bool(r.ret)
  /\ outcome' = "returned"
  /\ event' = NoTsEvent
  /\ request' = NoRequest
  /\ response' = NoResponse

\* register(api): loadKeywords() throws when config.keywords is not
\* iterable, and then no hook and no route is registered.
Register ==
  /\ keywords.t = "set"
  /\ ~registered
  /\ \E readOk \in ReadOutcomes :
       LET c == tsLoadConfig(file, readOk)
           s == NewSet(Get(c, S_keywords))
       IN /\ op' = "register"
          /\ outcome' = IF s.threw THEN "threw" ELSE "returned"
          /\ registered' = ~s.threw
          /\ keywords' = IF s.threw THEN keywords ELSE s.val
          /\ loaded' = c
          /\ ioFailed' = (ioFailed \/ ~readOk)
          /\ saveRet' = "none"
          /\ arg' = Undef
          /\ ret' = Undef
          /\ event' = NoTsEvent
          /\ request' = NoRequest
          /\ response' = NoResponse
          /\ UNCHANGED <<file, stored, prior, nBlock, pending>>

AddKeyword ==
  /\ keywords.t = "set"
  /\ \E wi \in 1..Len(Words), readOk \in ReadOutcomes, writeOk \in BOOLEAN :
       TsCall("addKeyword", Words[wi],
              addKeyword(Words[wi], keywords, file, readOk, writeOk), readOk)

RemoveKeyword ==
  /\ keywords.t = "set"
  /\ \E wi \in 1..Len(Words), readOk \in ReadOutcomes, writeOk \in BOOLEAN :
       TsCall("removeKeyword", Words[wi],
              removeKeyword(Words[wi], keywords, file, readOk, writeOk), readOk)

UpdateKeywords ==
  /\ keywords.t = "set"
  /\ \E li \in 1..Len(KeywordLists), readOk \in ReadOutcomes, writeOk \in BOOLEAN :
       TsCall("updateKeywords", KeywordLists[li],
              updateKeywords(KeywordLists[li], keywords, file, readOk, writeOk),
              readOk)

ClearKeywords ==
  /\ keywords.t = "set"
  /\ \E readOk \in ReadOutcomes, writeOk \in BOOLEAN :
       TsCall("clearKeywords", Undef,
              clearKeywords(keywords, file, readOk, writeOk), readOk)

GetKeywords ==
  /\ keywords.t = "set"
  /\ TsStep("getKeywords", Undef, kept(keywords, file), TRUE)
  /\ ret' = getKeywords(keywords)
  /\ outcome' = "returned"
  /\ event' = NoTsEvent
  /\ request' = NoRequest
  /\ response' = NoResponse

\* The host calls the handler of the /keywords route.
Route ==
  /\ keywords.t = "set"
  /\ registered
  /\ \E ui \in 1..Len(RouteUrls), method \in RouteMethods,
        bi \in 1..Len(RouteBodies) :
     \E readOk \in (IF method \in {"GET", "PATCH"} THEN {TRUE} ELSE ReadOutcomes),
        writeOk \in (IF method \in {"GET", "PATCH"} THEN {TRUE} ELSE BOOLEAN) :
       LET req == [method |-> method, url |-> RouteUrls[ui],
                   body |-> RouteBodies[bi]]
       IN \E r \in {routeHandler(req, keywords, file, readOk, writeOk)} :
            /\ TsStep("route", Undef, r, readOk)
            /\ ret' = Undef
            /\ outcome' = "responded"
            /\ event' = NoTsEvent
            /\ request' = req
            /\ response' = r.response

\* The host calls the message:received hook of index.ts.
TsHook ==
  /\ keywords.t = "set"
  /\ registered
  /\ \E action \in {"received", "sent"}, ti \in 1..Len(TsEventTexts) :
       /\ TsStep("tsHook", Undef, kept(keywords, file), TRUE)
       /\ event' = tsHandler([NoTsEvent EXCEPT !.type = "message",
                                               !.action = action,
                                               !.text = TsEventTexts[ti]],
                             keywords)
       /\ ret' = Undef
       /\ outcome' = "returned"
       /\ request' = NoRequest
       /\ response' = NoResponse

NextTs ==
  \/ Register
  \/ AddKeyword
  \/ RemoveKeyword
  \/ UpdateKeywords
  \/ ClearKeywords
  \/ GetKeywords
  \/ Route
  \/ TsHook

SpecTs == InitTs /\ [][NextTs]_vars

(* ------------------------------------------------------------------ *)
(* Either plugin: index.js with its admin server, or index.ts         *)
(* ------------------------------------------------------------------ *)
\* The host has loaded index.js (which has no keyword Set) on a fresh
\* install, or index.ts.
InitSurface == (Init /\ ~file.exists) \/ InitTs

\* index.js is the plugin loaded: there is no keyword Set.
JsLoaded == keywords.t = "undefined"

NextSurface ==
  \/ JsLoaded /\ Received
  \/ JsLoaded /\ Sending
  \/ JsLoaded /\ Cli
  \/ JsLoaded /\ HttpRequest
  \/ JsLoaded /\ HttpEnd
  \/ NextTs

SpecSurface == InitSurface /\ [][NextSurface]_vars

(* ------------------------------------------------------------------ *)
(* checkKeywords on its own                                            *)
(* ------------------------------------------------------------------ *)
MatchTexts ==
  << <<"x", "S", "P", "y">>, <<"s", "p">>, <<"y", "p">>, <<"S">>, <<>> >>

MatchKeywords ==
  << <<Str(<<"s", "p">>)>>,
     <<>>,
     <<Str(<<"p">>), Str(<<"s", "p">>)>>,
     <<Str(<<"z">>), Str(<<"P">>)>>,
     <<Str(<<"z">>)>>,
     <<Str(<<>>)>>,
     <<Str(<<"z">>), Str(<<>>), Str(<<"s">>)>> >>

\* checkKeywords is about to be called with the text in event.text and
\* the configuration object in loaded.
InitMatch ==
  /\ file = [exists |-> FALSE, content |-> <<>>]
  /\ stored = Undef
  /\ op = "init"
  /\ \E ti \in 1..Len(MatchTexts) :
       event = [NoEvent EXCEPT !.text = Str(MatchTexts[ti])]
  /\ outcome = "none"
  /\ \E en \in BOOLEAN, ki \in 1..Len(MatchKeywords) :
       loaded = makeConfig(Bool(en), Both, Arr(MatchKeywords[ki]), None,
                           statsOf(0, 0))
  /\ saveRet = "none"
  /\ ioFailed = FALSE
  /\ prior = statsOf(0, 0)
  /\ nBlock = 0
  /\ ret = Undef
  /\ request = NoRequest
  /\ response = NoResponse
  /\ pending = NoPending
  /\ keywords = Undef
  /\ registered = TRUE
  /\ arg = Undef

Match ==
  /\ op = "init"
  /\ op' = "checkKeywords"
  /\ ret' = checkKeywords(event.text.v, loaded).val
  /\ UNCHANGED <<file, stored, event, outcome, loaded, saveRet, ioFailed,
                 prior, nBlock>>
  /\ UNCHANGED adminVars

SpecMatch == InitMatch /\ [][Match]_vars

(* ------------------------------------------------------------------ *)
(* isWhitelisted on its own                                            *)
(* ------------------------------------------------------------------ *)
WhitelistKeys ==
  << <<>>, <<"u">>, <<"u", "1">>, <<"a", ".", "b">>, <<"a", "x", "b">>,
     <<"u", "\n", "1">>, <<"1", "u">>, <<"a", "+">>, <<"a", "a">>, <<"*">> >>

WhitelistPatterns ==
  << <<>>,
     <<Str(<<"u">>)>>,
     <<Str(<<"u", "*">>)>>,
     <<Str(<<"*">>)>>,
     <<Str(<<"a", ".", "b">>)>>,
     <<Str(<<"a", "+">>)>>,
     <<Str(<<"*", "1">>)>>,
     <<Str(<<>>)>>,
     <<Str(<<"z">>), Str(<<"u", "*", "1">>)>>,
     <<Str(<<"a", "*", "b">>), Str(<<"1", "*">>)>> >>

\* isWhitelisted is about to be called with the session key in
\* event.sessionKey and the configuration object in loaded.
InitWhitelist ==
  /\ file = [exists |-> FALSE, content |-> <<>>]
  /\ stored = Undef
  /\ op = "init"
  /\ \E si \in 1..Len(WhitelistKeys) :
       event = [NoEvent EXCEPT !.sessionKey = Str(WhitelistKeys[si])]
  /\ outcome = "none"
  /\ \E wi \in 1..Len(WhitelistPatterns) :
       loaded = makeConfig(On, Both, None, Arr(WhitelistPatterns[wi]),
                           statsOf(0, 0))
  /\ saveRet = "none"
  /\ ioFailed = FALSE
  /\ prior = statsOf(0, 0)
  /\ nBlock = 0
  /\ ret = Undef
  /\ request = NoRequest
  /\ response = NoResponse
  /\ pending = NoPending
  /\ keywords = Undef
  /\ registered = TRUE
  /\ arg = Undef

Whitelist ==
  /\ op = "init"
  /\ op' = "isWhitelisted"
  /\ ret' = Bool(isWhitelisted(event.sessionKey.v, loaded).val)
  /\ UNCHANGED <<file, stored, event, outcome, loaded, saveRet, ioFailed,
                 prior, nBlock>>
  /\ UNCHANGED adminVars

SpecWhitelist == InitWhitelist /\ [][Whitelist]_vars

(* ------------------------------------------------------------------ *)
(* Properties                                                          *)
(* ------------------------------------------------------------------ *)
IsHook(o) == o \in {"received", "sending"}

\* The handler returned without cancelling the event.
AllowOutcomes == {"gate", "whitelisted", "nomatch"}

RecognizedKeys == {S_enabled, S_mode, S_keywords, S_whitelist, S_stats}

\* k occurs in t as a substring, letter case ignored.
OccursIn(k, t) == Includes(ToLowerCase(t), ToLowerCase(k))

\* The positions of the keywords of the list K that occur in t.
Hits(K, t) == {i \in 1..Len(K) : OccursIn(K[i].v, t)}

First(S) == CHOOSE i \in S : \A j \in S : i <= j

IsTrue(x) == x.t = "boolean" /\ x.v

totalChecksIn(f) == Get(statsIn(f), S_totalChecks)

blockedIn(f) == Get(statsIn(f), S_blocked)

\* The text of the last event contains a keyword the loaded
\* configuration lists.
KeywordInText ==
  /\ IsHook(op)
  /\ Iterable(Get(loaded, S_keywords))
  /\ Truthy(matchFrom(eventText(event, op).v, Items(Get(loaded, S_keywords)), 1).val)

\* C1: a hook event whose text contains a keyword of the persisted
\* keyword list K (enabled, direction included in the mode, session key not
\* whitelisted, no I/O failure) is cancelled with reason "Keyword: <k>" for
\* the first such k of K, and both persisted counters grow by one.
C1_KeywordBlocks ==
  [][LET K == Get(stored, S_keywords)
         W == Get(stored, S_whitelist)
         mo == Get(stored, S_mode)
         t == eventText(event', op').v
         s == Or(event'.sessionKey, Str(<<>>)).v
     IN (/\ IsHook(op')
         /\ ~ioFailed'
         /\ stored.t = "object"
         /\ IsTrue(Get(stored, S_enabled))
         /\ mo.t = "string"
         /\ mo.v \in {S_both, IF op' = "received" THEN S_input_only
                                                   ELSE S_output_only}
         /\ K.t = "array"
         /\ W.t \in {"array", "undefined"}
         /\ W.t = "array" => \A i \in 1..Len(W.v) : ~regexTest(regexSource(W.v[i].v), 1, s, 1)
         /\ Hits(K.v, t) # {})
        => /\ IsTrue(event'.cancel)
           /\ JsEq(event'.cancelReason,
                   Str(S_KeywordPrefix \o K.v[First(Hits(K.v, t))].v))
           /\ totalChecksIn(file').v = totalChecksIn(file).v + 1
           /\ blockedIn(file').v = blockedIn(file).v + 1
    ]_vars

\* C2: as long as no read or write of config.yaml has failed, the
\* persisted counters are the counters at start plus the number of Block
\* decisions made, and a hook handler that does not block leaves the file
\* as it was.
C2_CounterMonotonicity ==
  /\ [](~ioFailed =>
          /\ totalChecksIn(file).v = Get(prior, S_totalChecks).v + nBlock
          /\ blockedIn(file).v = Get(prior, S_blocked).v + nBlock)
  /\ [][IsHook(op') /\ outcome' # "blocked" => file' = file]_vars

\* Two events were blocked and counted, and a later one was allowed.
C2_Witness ==
  /\ ~ioFailed
  /\ nBlock = 2
  /\ IsHook(op)
  /\ outcome \in AllowOutcomes
  /\ totalChecksIn(file).v = Get(prior, S_totalChecks).v + 2

\* C3: after saveConfig(c) has succeeded, loadConfig returns a
\* configuration equal to c on every recognized field.
C3_RoundTrip ==
  saveRet = "ok" =>
    \A k \in RecognizedKeys : JsEq(Get(loadConfig(file, TRUE), k), Get(stored, k))

\* C4: on every document the program itself has written, a hook handler
\* completes without throwing, the event is left uncancelled or cancelled
\* with a reason, and it is cancelled also when the save failed.
C4_DecisionResolves ==
  IsHook(op) =>
    /\ outcome # "threw"
    /\ \/ event.cancel.t = "undefined"
       \/ IsTrue(event.cancel) /\ event.cancelReason.t = "string"
    /\ saveRet = "failed" => IsTrue(event.cancel)

\* C5: the persisted counters are integers >= 0 and blocked <= totalChecks.
C5_StatsInvariant ==
  LET tc == totalChecksIn(file)
      b == blockedIn(file)
  IN /\ tc.t = "number" /\ tc.v \in Nat
     /\ b.t = "number" /\ b.v \in Nat
     /\ b.v <= tc.v

\* A hook has just blocked and saved, on counters that were unequal.
C5_Witness ==
  /\ IsHook(op)
  /\ outcome = "blocked"
  /\ saveRet = "ok"
  /\ blockedIn(file).v >= 1
  /\ blockedIn(file).v < totalChecksIn(file).v

\* C6: loadConfig applies the defaults field by field: a recognized key
\* the document lacks comes back at its default, and the keys the document
\* has keep their persisted values.
C6_FieldDefaults ==
  [][LET d == IF file.exists THEN parseYAML(file.content) ELSE Obj(<<>>)
     IN \A k \in RecognizedKeys :
          /\ ~HasKey(d, k) => JsEq(Get(loaded', k), Get(DefaultConfig, k))
          /\ HasKey(d, k) /\ ~ioFailed' => JsEq(Get(loaded', k), Get(d, k))
    ]_vars

\* C7: with enabled == false in the loaded configuration a hook allows
\* the event and writes nothing: not the event's cancel and cancelReason,
\* not config.yaml.
C7_DisabledAllows ==
  [][IsHook(op') /\ JsEq(Get(loaded', S_enabled), Bool(FALSE))
       => /\ outcome' \in AllowOutcomes
          /\ event'.cancel.t = "undefined"
          /\ event'.cancelReason.t = "undefined"
          /\ saveRet' = "none"
          /\ file' = file
    ]_vars

\* A disabled configuration let through a text with one of its keywords.
C7_Witness ==
  /\ IsHook(op)
  /\ JsEq(Get(loaded, S_enabled), Bool(FALSE))
  /\ outcome = "gate"
  /\ KeywordInText

\* C8: an inbound event under mode output_only and an outbound event
\* under mode input_only are allowed with nothing written; under mode both
\* or the mode of the event's direction an enabled handler goes on to the
\* whitelist and the matcher.
C8_DirectionExclusion ==
  [][IsHook(op') =>
       LET mo == Get(loaded', S_mode)
           excluded == \/ op' = "received" /\ JsEq(mo, Str(S_output_only))
                       \/ op' = "sending" /\ JsEq(mo, Str(S_input_only))
           included == \/ JsEq(mo, Str(S_both))
                       \/ op' = "received" /\ JsEq(mo, Str(S_input_only))
                       \/ op' = "sending" /\ JsEq(mo, Str(S_output_only))
       IN /\ excluded => /\ outcome' \in AllowOutcomes
                         /\ event'.cancel.t = "undefined"
                         /\ event'.cancelReason.t = "undefined"
                         /\ saveRet' = "none"
                         /\ file' = file
          /\ included /\ Truthy(Get(loaded', S_enabled)) => outcome' # "gate"
    ]_vars

\* An outbound text with a keyword was let through under input_only.
C8_Witness ==
  /\ op = "sending"
  /\ JsEq(Get(loaded, S_mode), Str(S_input_only))
  /\ Truthy(Get(loaded, S_enabled))
  /\ outcome = "gate"
  /\ KeywordInText

\* C9: when isWhitelisted returns true for the event's session key (the
\* empty string when the event has none) the event is allowed and nothing
\* is written; an event without session key that passes the enabled / mode
\* test is exempt exactly when the whitelist matches the empty string.
C9_WhitelistExemption ==
  [][IsHook(op') =>
       LET w == isWhitelisted(Or(event'.sessionKey, Str(<<>>)).v, loaded')
           w0 == isWhitelisted(<<>>, loaded')
       IN /\ ~w.threw /\ w.val =>
               /\ outcome' \in AllowOutcomes
               /\ event'.cancel.t = "undefined"
               /\ event'.cancelReason.t = "undefined"
               /\ saveRet' = "none"
               /\ file' = file
          /\ event'.sessionKey.t = "undefined" /\ outcome' # "gate" =>
               (outcome' = "whitelisted" <=> (~w0.threw /\ w0.val))
    ]_vars

\* An event without session key, carrying a keyword, was exempted.
C9_Witness ==
  /\ IsHook(op)
  /\ event.sessionKey.t = "undefined"
  /\ outcome = "whitelisted"
  /\ KeywordInText

\* C10: checkKeywords(t, config) is null iff no keyword of the list
\* occurs in t, letter case ignored, and otherwise the first such keyword;
\* an empty list or an empty text gives null.
C10_Matcher ==
  op = "checkKeywords" =>
    LET t == event.text.v
        K == Get(loaded, S_keywords).v
    IN /\ ret.t = "null" <=> Hits(K, t) = {}
       /\ Hits(K, t) # {} => JsEq(ret, K[First(Hits(K, t))])
       /\ (K = <<>> \/ t = <<>>) => ret.t = "null"

\* Whether the glob pattern p matches the whole of s: '*' stands for any
\* run of characters, every other character for itself.
RECURSIVE Glob(_, _)
Glob(p, s) ==
  IF p = <<>> THEN s = <<>>
  ELSE IF Head(p) = "*"
  THEN \E n \in 0..Len(s) : Glob(Tail(p), SubSeq(s, n + 1, Len(s)))
  ELSE s # <<>> /\ Head(s) = Head(p) /\ Glob(Tail(p), Tail(s))

\* C11: isWhitelisted(s, W) is true iff some pattern of the list W
\* matches the whole of s, '*' standing for any run of characters and
\* every other character for itself; it is false when W is empty.
C11_WhitelistEvaluator ==
  op = "isWhitelisted" =>
    LET s == event.sessionKey.v
        W == Get(loaded, S_whitelist).v
    IN /\ IsTrue(ret) <=> \E i \in 1..Len(W) : Glob(W[i].v, s)
       /\ W = <<>> => ~IsTrue(ret)

\* C11 on the session keys without a line terminator.
C11_OnOneLineKeys ==
  op = "isWhitelisted" =>
    LET s == event.sessionKey.v
        W == Get(loaded, S_whitelist).v
    IN (\A j \in 1..Len(s) : s[j] \notin {"\n", "\r"}) =>
         (IsTrue(ret) <=> \E i \in 1..Len(W) : Glob(W[i].v, s))

\* Configurations with the keywords of c that differ from c in enabled,
\* mode or whitelist.
ConfigVariants(c) ==
  << Put(c, S_enabled, Bool(TRUE)),
     Put(c, S_enabled, Bool(FALSE)),
     Put(c, S_mode, Str(S_both)),
     Put(c, S_mode, Str(S_input_only)),
     Put(c, S_mode, Str(S_output_only)),
     Put(c, S_whitelist, Arr(<<>>)),
     Put(c, S_whitelist, WlStar) >>

\* C12: what testText answers (CLI `test`, POST /api/test) depends on
\* the text and the keywords only: on every configuration with the same
\* keywords and another enabled, mode or whitelist it answers the same.
C12_TestTextMatcherOnly ==
  [][/\ op' = "test" =>
          \A i \in 1..7 :
            cli("test", event'.text, file, ConfigVariants(loaded')[i], TRUE).outcome
              = outcome'
     /\ op' = "request" /\ pending'.waiting /\ ~pending.waiting =>
          \A i \in 1..7 :
            LET e == onEnd(request'.body.v, ConfigVariants(loaded')[i])
            IN /\ e.threw = pending'.threw
               /\ JsEq(e.data, pending'.data)
    ]_vars

\* C14: an error inside the handling of an admin request is answered
\* with the server-error response and never leaves the handler uncaught.
C14_AdminErrorBoundary ==
  op \in {"request", "end"} =>
    /\ outcome # "uncaught"
    /\ outcome = "responded" => response.status \in {200, 404, 500}

\* The calls of the exported functions that change the keywords.
KeywordCalls == {"addKeyword", "removeKeyword", "updateKeywords", "clearKeywords"}

\* C13: right after replaceKeywords(L) (updateKeywords, PUT /keywords)
\* the keywords read back are exactly L, in order and with its duplicates.
C13_ReplaceThenRead ==
  [][/\ op' = "updateKeywords" => JsEq(getKeywords(keywords'), arg')
     /\ (/\ op' = "route"
         /\ request'.method = "PUT"
         /\ response'.status = 200)
          => JsEq(Get(response'.data, S_keywords), Get(request'.body, S_keywords))
    ]_vars

\* C16: addKeyword, removeKeyword and replaceKeywords call save and
\* return true iff the save succeeded, also on a word already present or
\* already absent.
C16_ReturnMirrorsSave ==
  op \in {"addKeyword", "removeKeyword", "updateKeywords"} =>
    /\ saveRet \in {"ok", "failed"}
    /\ IsTrue(ret) <=> saveRet = "ok"

\* The members of the Set S are those of the list in the configuration c.
SameKeywords(S, c) ==
  LET L == Get(c, S_keywords)
  IN /\ L.t = "array"
     /\ \A i \in 1..Len(L.v) : SetHas(S, L.v[i])
     /\ \A i \in 1..Len(S.v) : \E j \in 1..Len(L.v) : JsEq(S.v[i], L.v[j])

\* C20: a keyword call that returns false leaves the Set and config.yaml
\* as they were, and after the calls the Set has the keywords of the last
\* document written with success.
C20_FailedCallChangesNothing ==
  /\ [][op' \in KeywordCalls /\ ~IsTrue(ret')
         => keywords' = keywords /\ file' = file]_vars
  /\ [](op \in KeywordCalls /\ stored.t = "object" /\ saveRet # "none"
         => SameKeywords(keywords, stored))

\* C15: a CLI enable / disable that saved leaves enabled at the value
\* set and mode, keywords, whitelist and stats, as the next load reads
\* them, as a load read them before the call; the same command again
\* leaves the same document.
C15_SetEnabledFrame ==
  [][op' \in {"enable", "disable"} /\ saveRet' = "ok" /\ ~ioFailed' =>
       LET before == loadConfig(file, TRUE)
           after == loadConfig(file', TRUE)
       IN /\ JsEq(Get(after, S_enabled), Bool(op' = "enable"))
          /\ \A k \in {S_mode, S_keywords, S_whitelist, S_stats} :
               JsEq(Get(after, k), Get(before, k))
          /\ cli(op', Undef, file', after, TRUE).file = file'
    ]_vars

\* The handler ran testText: CLI `test`, or a POST /api/test in its
\* listener or in its 'end' callback.
IsTestText ==
  \/ op' = "test"
  \/ /\ op' \in {"request", "end"}
     /\ request'.method = "POST"
     /\ request'.url = S_api \o S_test

\* C17: testText changes nothing: config.yaml is as it was, stats
\* included, and saveConfig is not called.
C17_TestTextFrame ==
  [][IsTestText => /\ file' = file
                   /\ stored' = stored
                   /\ saveRet' = "none"]_vars

\* POST /api/test has reported a match on a document that counts a
\* blocked event.
C17_Witness ==
  /\ op = "end"
  /\ outcome = "responded"
  /\ JsEq(Get(response.data, S_passed), Bool(FALSE))
  /\ blockedIn(file).v >= 1

\* The /api/ request the listener has run on is neither `data` nor a
\* POST of `test`.
UnknownApi ==
  /\ op' = "request"
  /\ HasPrefix(request'.url, S_api)
  /\ RemoveFirst(request'.url, S_api) # S_data
  /\ ~(RemoveFirst(request'.url, S_api) = S_test /\ request'.method = "POST")

\* The CLI has run on a subcommand other than status, test, enable,
\* disable.
UnknownCommand ==
  op' \in CliCommands \ {"status", "test", "enable", "disable"}

\* The /keywords handler has run on a method and path other than GET,
\* POST, DELETE, PUT of /keywords itself.
UnknownKeywordsRoute ==
  /\ op' = "route"
  /\ ~(/\ request'.url = S_slashKeywords
       /\ request'.method \in {"GET", "POST", "DELETE", "PUT"})

NoSideEffect ==
  /\ file' = file
  /\ stored' = stored
  /\ keywords' = keywords
  /\ pending' = pending
  /\ saveRet' = "none"

\* C18: an unknown /api/ route and an unknown /keywords method or path
\* are answered 404 with an error body, an unknown CLI subcommand with
\* the usage line; none of them changes config.yaml, the keyword Set or
\* a waiting 'end' callback, and none saves.
C18_UnknownHasNoEffect ==
  [][/\ UnknownApi =>
          /\ response'.status = 404
          /\ JsEq(Get(response'.data, S_error), Str(S_NotFound))
          /\ NoSideEffect
     /\ UnknownCommand =>
          /\ outcome' = "usage"
          /\ NoSideEffect
     /\ UnknownKeywordsRoute =>
          /\ response'.status = 404
          /\ JsEq(Get(response'.data, S_error), Str(S_NotFound))
          /\ NoSideEffect
    ]_vars

\* POST /keywords/a with a word the Set does not hold was answered 404,
\* and the Set still does not hold it.
C18_Witness ==
  /\ op = "route"
  /\ request.method = "POST"
  /\ request.url # S_slashKeywords
  /\ Truthy(Get(request.body, S_word))
  /\ response.status = 404
  /\ ~SetHas(keywords, Get(request.body, S_word))

====
